---- MODULE Spec2Model ----
(***************************************************************************)
(* The task store of src/database (one SQLite table, `tasks`) and the      *)
(* Flask handlers of src/app.py that read and write it.                    *)
(*                                                                         *)
(* A handler runs on a worker thread.  Every statement that touches the    *)
(* table or reads the clock is one step of the worker, so that the steps   *)
(* of two workers interleave the way two requests do.  The host is either  *)
(* "serial" (one request at a time) or "threaded" (two at a time).         *)
(***************************************************************************)
EXTENDS Integers, Sequences, FiniteSets, TLC

VARIABLES
    tasks,        \* the rows of table tasks
    clock,        \* what datetime.now(timezone.utc) returns
    req,          \* per worker: position in the handler, its locals, its response
    host,         \* "serial" or "threaded"
    pre,          \* history (serial host): the table when the request began
    arrived,      \* history (serial host): the clock when the request began
    asked         \* history (serial host): the route and body of the request

vars == <<tasks, clock, req, host, pre, arrived, asked>>

-----------------------------------------------------------------------------
(* Bounds *)

MaxClock == 1     \* the clock ticks at most this often

Workers == {1, 2}
IdPool == {1, 2}  \* the values uuid4 may return (it may return one twice)

-----------------------------------------------------------------------------
(* Values.  None is Python's None, JSON's null and SQL's NULL; Some(v) is  *)
(* any other value.                                                        *)

None == <<>>
Some(v) == <<v>>
Val(o) == o[1]

EmptyDict == [k \in {} |-> None]

\* src/models.py: TaskStatus
TaskStatus == {"Open", "In Progress", "Blocked", "Closed", "Deleted"}

MaxTitleLen == 500
MaxCommentsLen == 5000

(* A date-time text is modelled by its date-and-time part (a number, which *)
(* orders as the fixed-width text does) and its offset suffix.  local = -1 *)
(* is a text with no date in it: the empty string (off "") or junk.        *)
EmptyText == [local |-> -1, off |-> ""]
JunkText == [local |-> -1, off |-> "?"]

\* s.replace("Z", "+00:00")
ReplaceZ(s) == IF s.off = "Z" THEN [s EXCEPT !.off = "+00:00"] ELSE s

\* datetime.fromisoformat accepts s
IsIsoFormat(s) == s.local >= 0 /\ s.off \in {"", "+00:00"}

\* datetime.fromisoformat(s): an aware or a naive datetime
FromIsoFormat(s) ==
    [at |-> s.local, tz |-> IF s.off = "+00:00" THEN "utc" ELSE "naive"]

\* datetime.isoformat()
IsoFormat(dt) ==
    [local |-> dt.at, off |-> IF dt.tz = "utc" THEN "+00:00" ELSE ""]

\* datetime.now(timezone.utc)
NowUtc == [at |-> clock, tz |-> "utc"]

-----------------------------------------------------------------------------
(* The table *)

Ids(t) == {row.id : row \in t}

\* SELECT * FROM tasks WHERE id = ?  (fetchone)
Select(t, id) == {row \in t : row.id = id}

\* _row_to_dict
RowToDict(row) ==
    [id |-> row.id, title |-> row.title, due_date |-> row.due_date,
     status |-> row.status, comments |-> row.comments,
     created_at |-> row.created_at, updated_at |-> row.updated_at]

NotNullColumns == {"title", "status", "created_at", "updated_at"}

\* (mutant) the table has no primary key
InsertFailsNotNullOnly(t, d) == \E k \in NotNullColumns : d[k] = None

\* INSERT violates PRIMARY KEY or NOT NULL
InsertFails(t, d) ==
    \/ d.id \in Ids(t)
    \/ \E k \in NotNullColumns : d[k] = None

\* (mutant) created_at and updated_at bound to each other's column
InsertIntoSwapped(t, d) ==
    t \cup {[RowToDict(d) EXCEPT !.created_at = d.updated_at,
                                 !.updated_at = d.created_at]}

InsertInto(t, d) == t \cup {RowToDict(d)}

\* (mutant) the statement replaces the row: a key not named is cleared
SetColumnsReplacing(row, upd) ==
    [k \in DOMAIN row |->
        IF k \in DOMAIN upd THEN upd[k]
        ELSE IF k \in {"due_date", "comments"} THEN None ELSE row[k]]

\* UPDATE tasks SET k = ? (k in update_data) WHERE id = ?
SetColumns(row, upd) ==
    [k \in DOMAIN row |-> IF k \in DOMAIN upd THEN upd[k] ELSE row[k]]

UpdateFails(upd) == \E k \in DOMAIN upd \cap NotNullColumns : upd[k] = None

\* (mutant) ... WHERE id = ? AND updated_at < ?: a write that is not newer
\* than the stored row is dropped
UpdateWhereIfNewer(t, id, upd) ==
    {IF row.id = id /\ Val(row.updated_at).local < Val(upd["updated_at"]).local
     THEN SetColumns(row, upd) ELSE row : row \in t}

\* (mutant) ... WHERE id = ? AND updated_at = created_at: a write to a row
\* that was updated before is dropped
UpdateWhereFirstWriter(t, id, upd) ==
    {IF row.id = id /\ row.updated_at = row.created_at
     THEN SetColumns(row, upd) ELSE row : row \in t}

\* (mutant) ... WHERE id = ? AND status != 'Deleted'
UpdateWhereLive(t, id, upd) ==
    {IF row.id = id /\ row.status # Some("Deleted")
     THEN SetColumns(row, upd) ELSE row : row \in t}

\* UPDATE tasks SET ... WHERE id = ?
UpdateWhere(t, id, upd) ==
    {IF row.id = id THEN SetColumns(row, upd) ELSE row : row \in t}

-----------------------------------------------------------------------------
(* Workers *)

Idle ==
    [pc |-> "idle", op |-> "none", id |-> 0, upd |-> EmptyDict,
     code |-> 0, body |-> <<>>, conns |-> 0, opened |-> 0]

NotAsked == [route |-> "none", data |-> EmptyDict]

\* how a with-block of get_connection is left, by the answer that follows
ExitOf(code) == IF code \in {200, 201} THEN "return" ELSE "raise"

\* (mutant) conn.close() after the yield, outside any finally clause
ClosesOnReturn == {"return"}

\* get_connection: finally: if conn: conn.close()
ClosesOn == {"return", "raise"}

\* the connections open after n with-blocks of get_connection are left
StillOpen(n, code) == IF ExitOf(code) \in ClosesOn THEN 0 ELSE n

\* the handler returns: status code and the tasks in the envelope's data;
\* the step opened a connection and leaves its with-block and any around it
\* (opened counts the calls of get_connection the request has made)
Return(r, code, body) ==
    req' = [req EXCEPT ![r].pc = "done", ![r].upd = EmptyDict,
                       ![r].code = code, ![r].body = body,
                       ![r].conns = StillOpen(req[r].conns + 1, code),
                       ![r].opened = req[r].opened + 1]

Goto(r, pc, upd) ==
    req' = [req EXCEPT ![r].pc = pc, ![r].upd = upd]

Running(r) == req[r].pc \notin {"idle", "done"}

CanStart(r) ==
    /\ req[r].pc = "idle"
    /\ host = "serial" => r = 1

Begin(op, id) == [Idle EXCEPT !.op = op, !.id = id]

History(route, data) ==
    IF host = "serial"
    THEN /\ pre' = tasks
         /\ arrived' = clock
         /\ asked' = [route |-> route, data |-> data]
    ELSE UNCHANGED <<pre, arrived, asked>>

-----------------------------------------------------------------------------
(* Request bodies: a JSON object is a function from the keys it has.       *)

Has(data, k) == k \in DOMAIN data

\* Python truth of a JSON string or null
Truthy(v) == v # None /\ Val(v) # ""
TruthyText(v) == v # None /\ Val(v) # EmptyText

\* what a client may also put in a body: an id and timestamps of its own
Forged == [id |-> 0, at |-> [local |-> MaxClock + 7, off |-> "+00:00"]]

\* a key the body does not have
Absent == <<>>

JsonObject(t, d, s, c, x) ==
    LET dom == {k \in {"title"} : t # Absent} \cup
               {k \in {"due_date"} : d # Absent} \cup
               {k \in {"status"} : s # Absent} \cup
               {k \in {"comments"} : c # Absent} \cup
               {k \in {"id", "created_at", "updated_at"} : x # Absent}
    IN  [k \in dom |->
            CASE k = "title" -> t[1]
              [] k = "due_date" -> d[1]
              [] k = "status" -> s[1]
              [] k = "comments" -> c[1]
              [] k = "id" -> Some(Forged.id)
              [] OTHER -> Some(Forged.at)]

CreateRoutes == {"v1", "api", "tasks"}
UpdateRoutes == {"v1", "api", "tasks"}

Str(v) == <<Some(v)>>
Null == <<None>>

\* a string of n characters
RECURSIVE Repeat(_, _)
Repeat(c, n) ==
    IF n = 0 THEN ""
    ELSE IF n % 2 = 0
         THEN LET half == Repeat(c, n \div 2) IN half \o half
         ELSE c \o Repeat(c, n - 1)

\* the shortest title and comments that are too long
LongTitle == Repeat("a", MaxTitleLen + 1)
LongComments == Repeat("x", MaxCommentsLen + 1)
DateZ(n) == <<Some([local |-> n, off |-> "Z"])>>

\* The create requests the clients send.  To a serial host: on every route
\* the bodies the routes treat differently, on one route the other cases.
SerialCreates ==
    (CreateRoutes \X
        {JsonObject(Str("a"), Absent, s, Absent, Absent) :
            s \in {Absent, Null, Str(""), Str("Bogus"), Str("Closed")}}) \cup
    ({"v1"} \X
       ({JsonObject(t, Absent, Absent, Absent, Absent) :
            t \in {Absent, Null, Str("")}} \cup
        {JsonObject(Str("a"), d, Absent, Absent, Absent) :
            d \in {Null, <<Some(EmptyText)>>, <<Some(JunkText)>>}} \cup
        {JsonObject(Absent, Absent, Absent, Str("x"), Absent),
         JsonObject(Str("a"), DateZ(1), Str("Closed"), Str("x"), <<"forged">>),
         JsonObject(Str(LongTitle), Absent, Absent, Absent, Absent),
         JsonObject(Str("a"), Absent, Absent, Str(LongComments), Absent)}))

\* To a threaded host
ThreadedCreates ==
    {<<"v1", JsonObject(Str("a"), Absent, Absent, Absent, Absent)>>,
     <<"v1", JsonObject(Str("a"), Absent, Str("Bogus"), Absent, Absent)>>}

CreatesTo ==
    [h \in {"serial", "threaded"} |->
        IF h = "serial" THEN SerialCreates ELSE ThreadedCreates]

\* The update requests.  To a serial host: every set of the four keys, the
\* forged keys alone and with a key, single keys with other values, and the
\* titles a create would refuse.
SerialUpdates ==
    ({"v1"} \X
       ({JsonObject(t, d, s, c, Absent) :
            t \in {Absent, Str("b")}, d \in {Absent, Null},
            s \in {Absent, Str("Closed")}, c \in {Absent, Null}} \cup
        {JsonObject(t, Absent, Absent, Absent, <<"forged">>) :
            t \in {Absent, Str("b")}} \cup
        {JsonObject(Absent, d, Absent, Absent, Absent) :
            d \in {DateZ(1), <<Some(EmptyText)>>, <<Some(JunkText)>>}} \cup
        {JsonObject(Absent, Absent, s, Absent, Absent) :
            s \in {Null, Str(""), Str("Bogus")}} \cup
        {JsonObject(Absent, Absent, Absent, Str("x"), Absent)})) \cup
    ({"api", "tasks"} \X
        {JsonObject(Str("b"), Absent, Absent, Absent, Absent),
         JsonObject(Absent, Absent, Str("Bogus"), Absent, Absent),
         JsonObject(Absent, Absent, Absent, Absent, <<"forged">>)}) \cup
    (UpdateRoutes \X {JsonObject(Str(""), Absent, Absent, Absent, Absent)}) \cup
    ({"api"} \X {JsonObject(Str(LongTitle), Absent, Absent, Absent, Absent),
                 JsonObject(Str(""), Absent, Absent, Str("x"), Absent)})

\* To a threaded host
ThreadedUpdates ==
    {<<"v1", JsonObject(Str("b"), Absent, Absent, Absent, Absent)>>,
     <<"v1", JsonObject(Str("c"), Absent, Absent, Absent, Absent)>>,
     <<"api", JsonObject(Absent, Absent, Absent, Str("y"), <<"forged">>)>>,
     <<"tasks", JsonObject(Absent, Absent, Absent, Absent, <<"forged">>)>>}

UpdatesTo ==
    [h \in {"serial", "threaded"} |->
        IF h = "serial" THEN SerialUpdates ELSE ThreadedUpdates]

\* the ids the clients name in a path
PathIds == {1}

-----------------------------------------------------------------------------
(* POST /api/v1/tasks, /api/tasks, /tasks                                  *)

\* data["status"] as TaskCreate receives it
CreateStatus(route, data) ==
    IF route = "api" THEN Some("Open")
    ELSE IF Has(data, "status") THEN data["status"] ELSE Some("Open")

\* (mutant) the fields of TaskBase without min_length and max_length
TaskCreateRejectsAnyLength(route, data) ==
    \/ Has(data, "due_date") /\ data["due_date"] = Some(EmptyText)
    \/ CreateStatus(route, data) = None
    \/ Val(CreateStatus(route, data)) \notin TaskStatus

\* TaskCreate(**data) raises ValidationError (a ValueError)
TaskCreateRejects(route, data) ==
    \/ Len(Val(data["title"])) < 1 \/ Len(Val(data["title"])) > MaxTitleLen
    \/ Has(data, "due_date") /\ data["due_date"] = Some(EmptyText)
    \/ CreateStatus(route, data) = None
    \/ Val(CreateStatus(route, data)) \notin TaskStatus
    \/ /\ Has(data, "comments") /\ data["comments"] # None
       /\ Len(Val(data["comments"])) > MaxCommentsLen

\* the handler answers 400
CreateRejected(route, data) ==
    \/ DOMAIN data = {}
    \/ ~Has(data, "title")
    \/ ~Truthy(data["title"])
    \/ /\ Has(data, "due_date") /\ TruthyText(data["due_date"])
       /\ ~IsIsoFormat(ReplaceZ(Val(data["due_date"])))
    \/ /\ route # "api" /\ Has(data, "status") /\ Truthy(data["status"])
       /\ Val(data["status"]) \notin TaskStatus
    \/ TaskCreateRejects(route, data)

\* Task(**task_create.model_dump()) with id and created_at from their
\* default factories, in the form to_db_dict gives them
NewTask(route, data, id) ==
    [id |-> id,
     title |-> data["title"],
     due_date |-> IF Has(data, "due_date") /\ data["due_date"] # None
                  THEN Some(IsoFormat(FromIsoFormat(ReplaceZ(Val(data["due_date"])))))
                  ELSE None,
     status |-> CreateStatus(route, data),
     comments |-> IF Has(data, "comments") THEN data["comments"] ELSE None,
     created_at |-> Some(IsoFormat(NowUtc)),
     updated_at |-> None]

\* (mutant) default=datetime.now(...): evaluated once, when the class is made
WithUpdatedAtOfImport(task) ==
    [task EXCEPT !.updated_at = Some(IsoFormat([at |-> 0, tz |-> "utc"]))]

\* the default factory of Task.updated_at
WithUpdatedAt(task) == [task EXCEPT !.updated_at = Some(IsoFormat(NowUtc))]

CreateTask(r, route, data) ==
    /\ CanStart(r)
    /\ History(route, data)
    /\ IF CreateRejected(route, data)
       THEN req' = [req EXCEPT ![r] =
                [Begin("create", 0) EXCEPT !.pc = "done", !.code = 400]]
       ELSE \E id \in IdPool :
              req' = [req EXCEPT ![r] =
                [Begin("create", id) EXCEPT
                    !.pc = "task_updated_at", !.upd = NewTask(route, data, id)]]
    /\ UNCHANGED <<tasks, clock, host>>

TaskUpdatedAt(r) ==
    /\ req[r].pc = "task_updated_at"
    /\ Goto(r, "repo_create", WithUpdatedAt(req[r].upd))
    /\ UNCHANGED <<tasks, clock, host, pre, arrived, asked>>

\* TaskRepository.create
RepoCreate(r) ==
    /\ req[r].pc = "repo_create"
    /\ IF InsertFails(tasks, req[r].upd)
       THEN /\ Return(r, 500, <<>>)
            /\ UNCHANGED tasks
       ELSE /\ tasks' = InsertInto(tasks, req[r].upd)
            /\ Return(r, 201, <<req[r].upd>>)
    /\ UNCHANGED <<clock, host, pre, arrived, asked>>

-----------------------------------------------------------------------------
(* GET /api/v1/tasks/<id>, /api/tasks/<id>, /tasks/<id>                    *)

\* (mutant) SELECT without its WHERE clause
GetByIdAnyRow(t, id) == IF t = {} THEN <<>>
                        ELSE <<RowToDict(CHOOSE row \in t : TRUE)>>

\* TaskRepository.get_by_id
GetById(t, id) == IF Select(t, id) = {} THEN <<>>
                  ELSE <<RowToDict(CHOOSE row \in Select(t, id) : TRUE)>>

GetTask(r, id) ==
    /\ CanStart(r)
    /\ History("any", EmptyDict)
    /\ req' = [req EXCEPT ![r] =
            [Begin("get", id) EXCEPT
                !.pc = "done",
                !.code = IF GetById(tasks, id) = <<>> THEN 404 ELSE 200,
                !.body = GetById(tasks, id),
                !.conns = StillOpen(1, IF GetById(tasks, id) = <<>>
                                       THEN 404 ELSE 200),
                !.opened = 1]]
    /\ UNCHANGED <<tasks, clock, host>>

-----------------------------------------------------------------------------
(* PUT /api/v1/tasks/<id> (also PATCH), /api/tasks/<id>, /tasks/<id>       *)

UpdatableKeys == {"title", "due_date", "status", "comments"}

\* (mutant) status tested as create tests it: only when truthy
UpdateRejectedLax(route, data) ==
    \/ DOMAIN data = {}
    \/ route \in {"api", "tasks"} /\ Has(data, "title") /\ ~Truthy(data["title"])
    \/ /\ Has(data, "due_date") /\ TruthyText(data["due_date"])
       /\ ~IsIsoFormat(ReplaceZ(Val(data["due_date"])))
    \/ /\ Has(data, "status") /\ Truthy(data["status"])
       /\ Val(data["status"]) \notin TaskStatus

\* (mutant) every route builds update_data as /api/v1/tasks does
UpdateRejectedAsV1(route, data) ==
    \/ DOMAIN data = {}
    \/ /\ Has(data, "due_date") /\ TruthyText(data["due_date"])
       /\ ~IsIsoFormat(ReplaceZ(Val(data["due_date"])))
    \/ /\ Has(data, "status")
       /\ (data["status"] = None \/ Val(data["status"]) \notin TaskStatus)

\* the handler answers 400 before it calls the repository
UpdateRejected(route, data) ==
    \/ DOMAIN data = {}
    \/ route \in {"api", "tasks"} /\ Has(data, "title") /\ ~Truthy(data["title"])
    \/ /\ Has(data, "due_date") /\ TruthyText(data["due_date"])
       /\ ~IsIsoFormat(ReplaceZ(Val(data["due_date"])))
    \/ /\ Has(data, "status")
       /\ (data["status"] = None \/ Val(data["status"]) \notin TaskStatus)

\* (mutant) update_data = dict(data): every key of the body
UpdateDataEveryKey(data) ==
    [k \in DOMAIN data |->
        IF k = "due_date"
        THEN IF TruthyText(data[k])
             THEN Some(IsoFormat(FromIsoFormat(ReplaceZ(Val(data[k])))))
             ELSE None
        ELSE IF k = "id" THEN Val(data[k]) ELSE data[k]]

\* update_data as the handler builds it
UpdateData(data) ==
    [k \in UpdatableKeys \cap DOMAIN data |->
        IF k = "due_date"
        THEN IF TruthyText(data[k])
             THEN Some(IsoFormat(FromIsoFormat(ReplaceZ(Val(data[k])))))
             ELSE None
        ELSE data[k]]

\* (mutant) updated_at is not written
Unstamped(upd) == upd

\* update_data["updated_at"] = datetime.now(timezone.utc).isoformat()
Stamped(upd) ==
    [k \in DOMAIN upd \cup {"updated_at"} |->
        IF k = "updated_at" THEN Some(IsoFormat(NowUtc)) ELSE upd[k]]

\* (mutant) the handler looks the task up before it checks the body
UpdateTaskLookupFirst(r, route, id, data) ==
    /\ CanStart(r)
    /\ History(route, data)
    /\ req' = [req EXCEPT ![r] =
          IF GetById(tasks, id) = <<>>
          THEN [Begin("update", id) EXCEPT !.pc = "done", !.code = 404,
                                            !.conns = StillOpen(1, 404),
                                            !.opened = 1]
          ELSE IF UpdateRejected(route, data)
          THEN [Begin("update", id) EXCEPT !.pc = "done", !.code = 400,
                                            !.opened = 1]
          ELSE IF UpdateData(data) = EmptyDict
          THEN [Begin("update", id) EXCEPT !.pc = "upd_nothing", !.opened = 1]
          ELSE [Begin("update", id) EXCEPT !.pc = "upd_now", !.opened = 1,
                                            !.upd = UpdateData(data)]]
    /\ UNCHANGED <<tasks, clock, host>>

\* the handler up to the first get_by_id of TaskRepository.update
UpdateTask(r, route, id, data) ==
    /\ CanStart(r)
    /\ History(route, data)
    /\ req' = [req EXCEPT ![r] =
          IF UpdateRejected(route, data)
          THEN [Begin("update", id) EXCEPT !.pc = "done", !.code = 400]
          ELSE IF GetById(tasks, id) = <<>>
          THEN [Begin("update", id) EXCEPT !.pc = "done", !.code = 404,
                                            !.conns = StillOpen(1, 404),
                                            !.opened = 1]
          ELSE IF UpdateData(data) = EmptyDict
          THEN [Begin("update", id) EXCEPT !.pc = "upd_nothing", !.opened = 1]
          ELSE [Begin("update", id) EXCEPT !.pc = "upd_now", !.opened = 1,
                                            !.upd = UpdateData(data)]]
    /\ UNCHANGED <<tasks, clock, host>>

\* if not update_data: return self.get_by_id(task_id)
UpdateNothing(r) ==
    /\ req[r].pc = "upd_nothing"
    /\ IF GetById(tasks, req[r].id) = <<>>
       THEN Return(r, 404, <<>>)
       ELSE Return(r, 200, GetById(tasks, req[r].id))
    /\ UNCHANGED <<tasks, clock, host, pre, arrived, asked>>

UpdateNow(r) ==
    /\ req[r].pc = "upd_now"
    /\ Goto(r, "upd_write", Stamped(req[r].upd))
    /\ UNCHANGED <<tasks, clock, host, pre, arrived, asked>>

\* the UPDATE statement and its commit; the connection stays open while
\* the with-block goes on to get_by_id
UpdateWrite(r) ==
    /\ req[r].pc = "upd_write"
    /\ IF Select(tasks, req[r].id) = {}
       THEN Return(r, 404, <<>>) /\ UNCHANGED tasks
       ELSE IF UpdateFails(req[r].upd)
       THEN Return(r, 500, <<>>) /\ UNCHANGED tasks
       ELSE /\ tasks' = UpdateWhere(tasks, req[r].id, req[r].upd)
            /\ req' = [req EXCEPT ![r].pc = "upd_read",
                                   ![r].conns = req[r].conns + 1,
                                   ![r].opened = req[r].opened + 1]
    /\ UNCHANGED <<clock, host, pre, arrived, asked>>

\* return self.get_by_id(task_id); delete answers with a message only
UpdateRead(r) ==
    /\ req[r].pc = "upd_read"
    /\ IF GetById(tasks, req[r].id) = <<>>
       THEN Return(r, 404, <<>>)
       ELSE Return(r, 200, IF req[r].op = "delete" THEN <<>>
                                ELSE GetById(tasks, req[r].id))
    /\ UNCHANGED <<tasks, clock, host, pre, arrived, asked>>

-----------------------------------------------------------------------------
(* DELETE /api/v1/tasks/<id>, /tasks/<id>: TaskRepository.delete with      *)
(* soft_delete=True                                                        *)

\* (mutant) the delete also clears the comments
DeleteChangesClearing == [status |-> Some("Deleted"), comments |-> None]

\* self.update(task_id, {"status": "Deleted"}): the change set of a delete
DeleteChanges == [status |-> Some("Deleted")]

\* (mutant) delete(task_id, soft_delete=False)
HardDelete == FALSE

\* the handlers' argument: delete(task_id, soft_delete=True)
SoftDelete == TRUE

DeleteTask(r, id) ==
    /\ CanStart(r)
    /\ History("any", EmptyDict)
    /\ req' = [req EXCEPT ![r] =
          IF GetById(tasks, id) = <<>>
          THEN [Begin("delete", id) EXCEPT !.pc = "done", !.code = 404,
                                            !.conns = StillOpen(1, 404),
                                            !.opened = 1]
          ELSE [Begin("delete", id) EXCEPT
                    !.pc = "del_update", !.upd = DeleteChanges, !.opened = 1]]
    /\ UNCHANGED <<tasks, clock, host>>

\* soft: self.update(task_id, {"status": "Deleted"}), its get_by_id;
\* otherwise DELETE FROM tasks WHERE id = ?
DeleteUpdate(r) ==
    /\ req[r].pc = "del_update"
    /\ IF SoftDelete
       THEN /\ IF GetById(tasks, req[r].id) = <<>>
               THEN Return(r, 404, <<>>)
               ELSE req' = [req EXCEPT ![r].pc = "upd_now",
                                       ![r].opened = req[r].opened + 1]
            /\ UNCHANGED tasks
       ELSE /\ tasks' = tasks \ Select(tasks, req[r].id)
            /\ IF Select(tasks, req[r].id) = {}
               THEN Return(r, 404, <<>>)
               ELSE Return(r, 200, <<>>)
    /\ UNCHANGED <<clock, host, pre, arrived, asked>>

\* the response is sent and the worker takes the next request
Respond(r) ==
    /\ req[r].pc = "done"
    /\ req' = [req EXCEPT ![r] = Idle]
    /\ pre' = {}
    /\ arrived' = 0
    /\ asked' = NotAsked
    /\ UNCHANGED <<tasks, clock, host>>

-----------------------------------------------------------------------------
TypeOK ==
    /\ clock \in 0..MaxClock
    /\ host \in {"serial", "threaded"}

Init ==
    /\ tasks = {}
    /\ clock = 0
    /\ req = [r \in Workers |-> Idle]
    /\ host = "threaded"
    /\ pre = {}
    /\ arrived = 0
    /\ asked = NotAsked

Tick ==
    /\ clock < MaxClock
    /\ clock' = clock + 1
    /\ UNCHANGED <<tasks, req, host, pre, arrived, asked>>

Next ==
    \/ Tick
    \/ \E r \in Workers :
        \/ \E c \in CreatesTo[host] : CreateTask(r, c[1], c[2])
        \/ TaskUpdatedAt(r)
        \/ RepoCreate(r)
        \/ \E id \in PathIds : GetTask(r, id)
        \/ \E id \in PathIds, u \in UpdatesTo[host] : UpdateTask(r, u[1], id, u[2])
        \/ UpdateNothing(r)
        \/ UpdateNow(r)
        \/ UpdateWrite(r)
        \/ UpdateRead(r)
        \/ \E id \in PathIds : DeleteTask(r, id)
        \/ DeleteUpdate(r)
        \/ Respond(r)

Spec == Init /\ [][Next]_vars

SerialInit ==
    /\ tasks = {}
    /\ clock = 0
    /\ req = [r \in Workers |-> Idle]
    /\ host = "serial"
    /\ pre = {}
    /\ arrived = 0
    /\ asked = NotAsked

SerialSpec == SerialInit /\ [][Next]_vars

-----------------------------------------------------------------------------
(* Lists: TaskRepository.get_all and TaskRepository.query.  SQLite keeps   *)
(* the texts as they were bound and compares them byte by byte.            *)

\* the order of the strings of the model under the BINARY collation
StrRank(s) ==
    CASE s = "" -> 0
      [] s = "Blocked" -> 1
      [] s = "Closed" -> 2
      [] s = "Deleted" -> 3
      [] s = "In Progress" -> 4
      [] s = "Open" -> 5
      [] s = "a" -> 6
      [] s = "b" -> 7
      [] OTHER -> 8

\* the order of the offset suffixes: a prefix first, then "+" before "Z"
OffRank(off) ==
    CASE off = "" -> 0
      [] off = "+00:00" -> 1
      [] OTHER -> 2

\* text a < text b
TextLess(a, b) ==
    \/ a.local < b.local
    \/ a.local = b.local /\ OffRank(a.off) < OffRank(b.off)

\* column k of a < column k of b; NULL is less than any value
KeyLess(k, a, b) ==
    IF k \in {"title", "status"}
    THEN StrRank(Val(a[k])) < StrRank(Val(b[k]))
    ELSE b[k] # None /\ (a[k] = None \/ TextLess(Val(a[k]), Val(b[k])))

\* ORDER BY: row a may stand before row b
MayPrecede(order, a, b) ==
    IF order.nulls_last /\ (a[order.by] = None) # (b[order.by] = None)
    THEN b[order.by] = None
    ELSE IF order.desc THEN ~KeyLess(order.by, a, b)
         ELSE ~KeyLess(order.by, b, a)

\* fetchall() of the rows in that order; rows the ORDER BY ties come in
\* any order
Sorted(rows, order) ==
    {seq \in [1..Cardinality(rows) -> rows] :
        /\ \A i, j \in 1..Cardinality(rows) : seq[i] = seq[j] => i = j
        /\ \A i, j \in 1..Cardinality(rows) :
              i < j => MayPrecede(order, seq[i], seq[j])}

\* (mutant) the two status clauses are both applied
StatusClauseBoth(row, status, exclude) ==
    /\ Truthy(status) => row.status = status
    /\ exclude => Val(row.status) \notin {"Closed", "Deleted"}

\* if status: "status = ?" elif exclude_closed_deleted: "status NOT IN ..."
StatusClause(row, status, exclude) ==
    IF Truthy(status) THEN row.status = status
    ELSE IF exclude THEN Val(row.status) \notin {"Closed", "Deleted"}
    ELSE TRUE

\* (mutant) SELECT * FROM tasks with no WHERE clause
GetAllWhereAll(row, a) == TRUE

GetAllWhere(row, a) ==
    StatusClause(row, a.status_filter, a.exclude_closed_deleted)

GetAllOrder(a) ==
    IF a.sort_by_due_date
    THEN [by |-> "due_date", desc |-> FALSE, nulls_last |-> TRUE]
    ELSE [by |-> "created_at", desc |-> TRUE, nulls_last |-> FALSE]

ValidSortFields == {"created_at", "due_date", "updated_at", "title", "status"}
ValidSortOrders == {"asc", "desc"}

\* str.lower on the parameter values of the model
Lower(s) ==
    CASE s = "ASC" -> "asc"
      [] s = "DESC" -> "desc"
      [] s = "True" -> "true"
      [] s = "False" -> "false"
      [] OTHER -> s

\* (mutant) only sort_order is validated
QueryRejectsOrderOnly(q) == Lower(q.sort_order) \notin ValidSortOrders

\* query raises ValueError
QueryRejects(q) ==
    \/ q.sort_by \notin ValidSortFields
    \/ Lower(q.sort_order) \notin ValidSortOrders

\* (mutant) the date bounds compared with <= and >=
QueryWhereInclusive(row, q) ==
    /\ StatusClause(row, q.status, q.exclude_closed_deleted)
    /\ TruthyText(q.due_date_before) =>
          /\ row.due_date # None
          /\ ~TextLess(Val(q.due_date_before), Val(row.due_date))
    /\ TruthyText(q.due_date_after) =>
          /\ row.due_date # None
          /\ ~TextLess(Val(row.due_date), Val(q.due_date_after))
    /\ q.has_due_date = Some(TRUE) => row.due_date # None
    /\ q.has_due_date = Some(FALSE) => row.due_date = None

\* (mutant) "(due_date IS NULL OR due_date < ?)", and likewise for >
QueryWhereNullsPass(row, q) ==
    /\ StatusClause(row, q.status, q.exclude_closed_deleted)
    /\ TruthyText(q.due_date_before) =>
          \/ row.due_date = None
          \/ TextLess(Val(row.due_date), Val(q.due_date_before))
    /\ TruthyText(q.due_date_after) =>
          \/ row.due_date = None
          \/ TextLess(Val(q.due_date_after), Val(row.due_date))
    /\ q.has_due_date = Some(TRUE) => row.due_date # None
    /\ q.has_due_date = Some(FALSE) => row.due_date = None

\* the WHERE clauses of query, joined by AND
QueryWhere(row, q) ==
    /\ StatusClause(row, q.status, q.exclude_closed_deleted)
    /\ TruthyText(q.due_date_before) =>
          /\ row.due_date # None
          /\ TextLess(Val(row.due_date), Val(q.due_date_before))
    /\ TruthyText(q.due_date_after) =>
          /\ row.due_date # None
          /\ TextLess(Val(q.due_date_after), Val(row.due_date))
    /\ q.has_due_date = Some(TRUE) => row.due_date # None
    /\ q.has_due_date = Some(FALSE) => row.due_date = None

\* (mutant) ORDER BY due_date alone in both directions
QueryOrderPlain(q) ==
    [by |-> q.sort_by, desc |-> Lower(q.sort_order) = "desc",
     nulls_last |-> FALSE]

QueryOrder(q) ==
    [by |-> q.sort_by, desc |-> Lower(q.sort_order) = "desc",
     nulls_last |-> q.sort_by = "due_date"]

\* TaskRepository.get_all, called with the arguments a
GetAll(r, a) ==
    /\ CanStart(r)
    /\ History("get_all", a)
    /\ \E seq \in Sorted({row \in tasks : GetAllWhere(row, a)}, GetAllOrder(a)) :
          req' = [req EXCEPT ![r] =
              [Begin("get_all", 0) EXCEPT
                  !.pc = "done", !.code = 200,
                  !.body = [i \in DOMAIN seq |-> RowToDict(seq[i])],
                  !.conns = StillOpen(1, 200), !.opened = 1]]
    /\ UNCHANGED <<tasks, clock, host>>

\* the arguments get_tasks_api passes to get_all
TasksApiCall(status_param) ==
    [status_filter |-> status_param,
     exclude_closed_deleted |-> (status_param = None),
     sort_by_due_date |-> TRUE]

\* GET /api/tasks with the query parameter status (None: not in the URL)
GetTasksApi(r, status_param) ==
    /\ CanStart(r)
    /\ History("tasks_api", [status |-> status_param])
    /\ IF Truthy(status_param) /\ Val(status_param) \notin TaskStatus
       THEN req' = [req EXCEPT ![r] =
                [Begin("tasks_api", 0) EXCEPT !.pc = "done", !.code = 400]]
       ELSE \E seq \in Sorted({row \in tasks :
                                  GetAllWhere(row, TasksApiCall(status_param))},
                              GetAllOrder(TasksApiCall(status_param))) :
              req' = [req EXCEPT ![r] =
                  [Begin("tasks_api", 0) EXCEPT
                      !.pc = "done", !.code = 200,
                      !.body = [i \in DOMAIN seq |-> RowToDict(seq[i])],
                      !.conns = StillOpen(1, 200), !.opened = 1]]
    /\ UNCHANGED <<tasks, clock, host>>

\* TaskRepository.query, called with the arguments q, up to the connection:
\* a ValueError is what a handler answers with 400
Query(r, q) ==
    /\ CanStart(r)
    /\ History("query", q)
    /\ req' = [req EXCEPT ![r] =
          IF QueryRejects(q)
          THEN [Begin("query", 0) EXCEPT !.pc = "done", !.code = 400]
          ELSE [Begin("query", 0) EXCEPT !.pc = "query_select", !.upd = q]]
    /\ UNCHANGED <<tasks, clock, host>>

\* with self.db.get_connection(): execute, fetchall
QuerySelect(r) ==
    /\ req[r].pc = "query_select"
    /\ \E seq \in Sorted({row \in tasks : QueryWhere(row, req[r].upd)},
                         QueryOrder(req[r].upd)) :
          Return(r, 200, [i \in DOMAIN seq |-> RowToDict(seq[i])])
    /\ UNCHANGED <<tasks, clock, host, pre, arrived, asked>>

\* request.args.get(name, default)
ArgOr(v, default) == IF v = None THEN default ELSE Val(v)

\* GET /api/tasks/filter answers 400
FilterRejected(p) ==
    \/ Truthy(p.status) /\ Val(p.status) \notin TaskStatus
    \/ /\ p.has_due_date # None
       /\ Lower(Val(p.has_due_date)) \notin {"true", "false"}
    \/ /\ TruthyText(p.due_date_before)
       /\ ~IsIsoFormat(ReplaceZ(Val(p.due_date_before)))
    \/ /\ TruthyText(p.due_date_after)
       /\ ~IsIsoFormat(ReplaceZ(Val(p.due_date_after)))
    \/ ArgOr(p.sort_by, "created_at") \notin ValidSortFields
    \/ Lower(ArgOr(p.sort_order, "desc")) \notin ValidSortOrders

\* the arguments filter_tasks passes to query
FilterQuery(p) ==
    [status |-> p.status,
     due_date_before |-> p.due_date_before,
     due_date_after |-> p.due_date_after,
     has_due_date |-> IF p.has_due_date = None THEN None
                      ELSE Some(Lower(Val(p.has_due_date)) = "true"),
     exclude_closed_deleted |-> FALSE,
     sort_by |-> ArgOr(p.sort_by, "created_at"),
     sort_order |-> ArgOr(p.sort_order, "desc")]

\* filter_tasks up to the connection of query
FilterTasks(r, p) ==
    /\ CanStart(r)
    /\ History("filter", p)
    /\ req' = [req EXCEPT ![r] =
          IF FilterRejected(p) \/ QueryRejects(FilterQuery(p))
          THEN [Begin("filter", 0) EXCEPT !.pc = "done", !.code = 400]
          ELSE [Begin("filter", 0) EXCEPT
                    !.pc = "query_select", !.upd = FilterQuery(p)]]
    /\ UNCHANGED <<tasks, clock, host>>

-----------------------------------------------------------------------------
(* A host started on a database file that holds tasks already: the lists   *)
(* are taken of every such table, by a serial host.                        *)

MaxDue == 3       \* the stored due dates are at 1..MaxDue

StoredIds == {1, 2, 3}

DueAt(n) == Some([local |-> n, off |-> "+00:00"])

StoredDues == {None} \cup {DueAt(n) : n \in 1..MaxDue}

\* a row as create and update leave one
StoredRow(id, status, due) ==
    [id |-> id,
     title |-> Some(IF id = 1 THEN "a" ELSE "b"),
     due_date |-> due,
     status |-> Some(status),
     comments |-> None,
     created_at |-> Some(IsoFormat([at |-> 0, tz |-> "utc"])),
     updated_at |-> Some(IsoFormat([at |-> 0, tz |-> "utc"]))]

\* the task the updates name has any status, the others one of three
StoredStatuses(id) ==
    IF id \in PathIds THEN TaskStatus ELSE {"Open", "Closed", "Deleted"}

StoredTables ==
    LET Slots == {<<>>} \cup (TaskStatus \X StoredDues)
        Fill == {f \in [StoredIds -> Slots] :
                    \A id \in StoredIds :
                        f[id] # <<>> => f[id][1] \in StoredStatuses(id)}
    IN  {{StoredRow(id, f[id][1], f[id][2]) :
                id \in {i \in StoredIds : f[i] # <<>>}} : f \in Fill}

GetAllArgs(status, exclude, sort) ==
    [status_filter |-> status, exclude_closed_deleted |-> exclude,
     sort_by_due_date |-> sort]

\* the calls of get_all: what the handlers pass, and both filters at once
GetAllCalls ==
    {GetAllArgs(st, ex, TRUE) :
        st \in {None, Some(""), Some("Closed"), Some("Open")}, ex \in BOOLEAN} \cup
    {GetAllArgs(None, FALSE, FALSE), GetAllArgs(Some("Deleted"), TRUE, FALSE)}

\* the status parameters of the requests to /api/tasks
TasksApiParams == {None, Some(""), Some("Closed"), Some("Open"), Some("Bogus")}

QueryArgs(status, before, after, has, exclude, by, order) ==
    [status |-> status, due_date_before |-> before, due_date_after |-> after,
     has_due_date |-> has, exclude_closed_deleted |-> exclude,
     sort_by |-> by, sort_order |-> order]

\* the calls of query: each sort, both status filters at once, and the
\* date filters in every combination
QueryCalls ==
    {QueryArgs(None, None, None, None, FALSE, by, order) :
        by \in {"due_date"}, order \in {"asc", "desc", "DESC", "up"}} \cup
    {QueryArgs(None, None, None, None, FALSE, by, "asc") :
        by \in {"title", "status", "updated_at", "bogus"}} \cup
    {QueryArgs(st, None, None, None, ex, "title", "asc") :
        st \in {None, Some(""), Some("Closed"), Some("Open")}, ex \in BOOLEAN} \cup
    {QueryArgs(st, before, after, has, FALSE, "title", "asc") :
        st \in {None, Some("Open")},
        before \in {None, Some(EmptyText), DueAt(MaxDue)},
        after \in {None, DueAt(1)},
        has \in {None, Some(TRUE), Some(FALSE)}}

FilterArgs(status, before, has, by, order) ==
    [status |-> status, due_date_before |-> before, due_date_after |-> None,
     has_due_date |-> has, sort_by |-> by, sort_order |-> order]

\* a request that gives the two bounds alone
FilterDates(before, after) ==
    [status |-> None, due_date_before |-> before, due_date_after |-> after,
     has_due_date |-> None, sort_by |-> None, sort_order |-> None]

\* the instant n as a client spells it with the suffix Z
DueAtZ(n) == Some([local |-> n, off |-> "Z"])

\* the requests to /api/tasks/filter
FilterRequests ==
    {FilterArgs(None, None, None, None, None),
     FilterArgs(Some("Bogus"), None, None, None, None),
     FilterArgs(Some("Closed"), DueAt(MaxDue), Some("True"), Some("due_date"), Some("ASC")),
     FilterArgs(None, Some(JunkText), None, None, None),
     FilterArgs(None, None, Some("maybe"), None, None),
     FilterArgs(None, None, None, Some("bogus"), None),
     FilterArgs(None, None, None, None, Some("up")),
     FilterDates(DueAtZ(2), None),
     FilterDates(None, DueAtZ(2))}

\* the updates sent to this host: of the status alone, to each status
StatusUpdates ==
    {JsonObject(Absent, Absent, Str(s), Absent, Absent) : s \in TaskStatus}

StoredInit ==
    /\ tasks \in StoredTables
    /\ clock = 0
    /\ req = [r \in Workers |-> Idle]
    /\ host = "serial"
    /\ pre = {}
    /\ arrived = 0
    /\ asked = NotAsked

StoredNext ==
    \E r \in Workers :
        \/ \E a \in GetAllCalls : GetAll(r, a)
        \/ \E st \in TasksApiParams : GetTasksApi(r, st)
        \/ \E q \in QueryCalls : Query(r, q)
        \/ \E p \in FilterRequests : FilterTasks(r, p)
        \/ QuerySelect(r)
        \/ \E id \in PathIds, u \in StatusUpdates : UpdateTask(r, "v1", id, u)
        \/ UpdateNow(r)
        \/ UpdateWrite(r)
        \/ UpdateRead(r)
        \/ Respond(r)

StoredSpec == StoredInit /\ [][StoredNext]_vars

-----------------------------------------------------------------------------
(* Properties.  Those about one request from its arrival to its response   *)
(* are stated of the serial host, where `pre`, `arrived` and `asked` hold  *)
(* what the request met; those about interleavings of the threaded host.   *)

Done(r, op, code) ==
    req[r].pc = "done" /\ req[r].op = op /\ req[r].code = code

Row(t, id) == CHOOSE row \in Select(t, id) : TRUE

At(text) == Val(text).local

\* the updatable keys the request body names
Changed == DOMAIN asked.data \cap UpdatableKeys

\* the column value an entry of a change set denotes
Supplied(k, v) ==
    IF k # "due_date" THEN v
    ELSE IF v = None \/ Val(v) = EmptyText THEN None
    ELSE Some([local |-> Val(v).local,
               off |-> IF Val(v).off = "Z" THEN "+00:00" ELSE Val(v).off])

\* a time the clock showed while the request was served
DuringRequest(text) ==
    \E t \in arrived..clock : text = Some([local |-> t, off |-> "+00:00"])

\* C1: a row once inserted stays: the set of stored ids never shrinks, and
\* when a delete has answered 200 the row is there with status Deleted.
C1_SoftDeleteKeepsRow ==
    /\ [](\A r \in Workers : Done(r, "delete", 200) =>
            /\ GetById(tasks, req[r].id) # <<>>
            /\ Row(tasks, req[r].id).status = Some("Deleted"))
    /\ [][Ids(tasks) \subseteq Ids(tasks')]_vars

C1_Witness ==
    \E r \in Workers :
        /\ Done(r, "delete", 200)
        /\ Cardinality(tasks) = 2
        /\ Row(pre, req[r].id).status # Some("Deleted")

\* C2: a successful update naming the keys K changes, of the whole table,
\* only the columns K and updated_at of its row, each to the value supplied
\* (null, for due_date also the empty string, clears the column).
C2_PartialUpdate ==
    \A r \in Workers :
        Done(r, "update", 200) /\ Changed # {} =>
            /\ Select(pre, req[r].id) # {}
            /\ Select(tasks, req[r].id) # {}
            /\ tasks \ Select(tasks, req[r].id) = pre \ Select(pre, req[r].id)
            /\ \A k \in DOMAIN Row(pre, req[r].id) :
                /\ k \in Changed =>
                      Row(tasks, req[r].id)[k] = Supplied(k, asked.data[k])
                /\ k \notin Changed \cup {"updated_at"} =>
                      Row(tasks, req[r].id)[k] = Row(pre, req[r].id)[k]

C2_Witness ==
    \E r \in Workers :
        /\ Done(r, "update", 200)
        /\ Changed = {"comments"}
        /\ Cardinality(tasks) = 2
        /\ Row(pre, req[r].id).comments = Some("x")
        /\ Row(tasks, req[r].id).comments = None
        /\ Row(pre, req[r].id).due_date # None

\* C3: every stored status is one of the five values of TaskStatus.
C3_StatusIsEnumerated ==
    \A row \in tasks : row.status \in {Some(s) : s \in TaskStatus}

C3_Witness ==
    \E r \in Workers :
        /\ Done(r, "update", 400)
        /\ Has(asked.data, "status")
        /\ asked.data["status"] = Some("")
        /\ Select(tasks, req[r].id) # {}

\* C4 (as amended): a successful update naming at least one of the four
\* keys leaves updated_at at a time the clock showed while it was served;
\* one naming none of them leaves the table as it was.
C4_UpdatedAtIsNow ==
    \A r \in Workers :
        Done(r, "update", 200) =>
            IF Changed # {}
            THEN DuringRequest(Row(tasks, req[r].id).updated_at)
            ELSE tasks = pre

C4_Witness ==
    \E r \in Workers :
        /\ Done(r, "update", 200)
        /\ Changed = {"title"}
        /\ At(Row(pre, req[r].id).updated_at) < arrived
        /\ At(Row(tasks, req[r].id).updated_at) = arrived

\* C4 (as claimed): every successful update leaves updated_at at a time
\* the clock showed while it was served, whatever its change set.
C4_Original ==
    \A r \in Workers :
        Done(r, "update", 200) =>
            DuringRequest(Row(tasks, req[r].id).updated_at)

\* C5: created_at <= updated_at in every row, in every interleaving.
C5_CreatedBeforeUpdated ==
    \A row \in tasks : At(row.created_at) <= At(row.updated_at)

C5_Witness ==
    \E row \in tasks :
        /\ At(row.created_at) < At(row.updated_at)
        /\ row.status = Some("Deleted")
        /\ \E r \in Workers : req[r].pc = "upd_write" /\ req[r].id = row.id

\* C6: the task a create returns has created_at = updated_at.
C6_CreatedEqualsUpdated ==
    \A r \in Workers :
        Done(r, "create", 201) =>
            req[r].body[1].created_at = req[r].body[1].updated_at

\* C7: no row carries an id or created_at that a request body supplied;
\* a new row's id and created_at are uuid4's and the clock's; and no step
\* changes the id or the created_at of a row.
C7_ServerChosenIdAndCreatedAt ==
    /\ [](\A row \in tasks :
            row.id # Forged.id /\ row.created_at # Some(Forged.at))
    /\ [][/\ \A row \in tasks : \E new \in tasks' :
                new.id = row.id /\ new.created_at = row.created_at
          /\ \A new \in tasks' : new.id \notin Ids(tasks) =>
                /\ new.id \in IdPool
                /\ \E t \in 0..clock :
                      new.created_at = Some([local |-> t, off |-> "+00:00"])]_vars

C7_Witness ==
    \E r \in Workers :
        /\ Done(r, "update", 200)
        /\ Has(asked.data, "id") /\ Has(asked.data, "created_at")
        /\ Changed = {"title"}
        /\ Row(tasks, req[r].id).title = Some("b")

\* C8: no two rows share an id; an INSERT of an id already stored answers
\* with an error and leaves the table as it was, any other INSERT adds its
\* row and touches no other.
C8_UniqueIds ==
    /\ [](\A a \in tasks, b \in tasks : a.id = b.id => a = b)
    /\ [][\A r \in Workers :
            req[r].pc = "repo_create" /\ req'[r].pc = "done" =>
                IF req[r].id \in Ids(tasks)
                THEN req'[r].code = 500 /\ tasks' = tasks
                ELSE /\ req'[r].code = 201
                     /\ tasks \subseteq tasks'
                     /\ Ids(tasks') = Ids(tasks) \cup {req[r].id}]_vars

C8_Witness ==
    \E r \in Workers, q \in Workers :
        /\ Done(r, "create", 201)
        /\ Done(q, "create", 500)
        /\ req[r].id = req[q].id
        /\ Cardinality(Select(tasks, req[r].id)) = 1

\* C9: when a create has answered 201, get_by_id of the returned id gives
\* a task equal in every field to the one returned.
C9_CreateGetRoundTrip ==
    \A r \in Workers :
        Done(r, "create", 201) =>
            GetById(tasks, req[r].body[1].id) = req[r].body

C9_Witness ==
    \E r \in Workers :
        /\ Done(r, "create", 201)
        /\ req[r].body[1].due_date = Some([local |-> 1, off |-> "+00:00"])
        /\ req[r].body[1].created_at # req[r].body[1].updated_at
        /\ Cardinality(tasks) = 2

\* a change set every route accepts
ValidChanges(data) ==
    /\ DOMAIN data \cap UpdatableKeys # {}
    /\ Has(data, "title") => Truthy(data["title"])
    /\ Has(data, "status") =>
          data["status"] # None /\ Val(data["status"]) \in TaskStatus
    /\ Has(data, "due_date") =>
          \/ data["due_date"] = None
          \/ Val(data["due_date"]).local >= 0

\* C10: get, update with a valid non-empty change set and delete of an id
\* that is not stored answer 404 and leave the table as it was.
C10_NotFound ==
    \A r \in Workers :
        /\ req[r].pc = "done"
        /\ req[r].op \in {"get", "update", "delete"}
        /\ req[r].op = "update" => ValidChanges(asked.data)
        /\ req[r].id \notin Ids(pre)
        => req[r].code = 404 /\ tasks = pre

C10_Witness ==
    \E r \in Workers :
        /\ Done(r, "update", 404)
        /\ ValidChanges(asked.data)
        /\ Changed = UpdatableKeys
        /\ tasks # {}

\* C11: a delete of a stored task answers 200 whatever its status was, also
\* Deleted (the second of two deletes); afterwards the status is Deleted,
\* every column but status and updated_at is as it was, updated_at is not
\* earlier than it was, and no other row has changed.
C11_SoftDeleteIdempotent ==
    \A r \in Workers :
        req[r].pc = "done" /\ req[r].op = "delete" /\ req[r].id \in Ids(pre) =>
            /\ req[r].code = 200
            /\ Select(tasks, req[r].id) # {}
            /\ Row(tasks, req[r].id).status = Some("Deleted")
            /\ \A k \in DOMAIN Row(pre, req[r].id) \ {"status", "updated_at"} :
                  Row(tasks, req[r].id)[k] = Row(pre, req[r].id)[k]
            /\ At(Row(tasks, req[r].id).updated_at)
                  >= At(Row(pre, req[r].id).updated_at)
            /\ tasks \ Select(tasks, req[r].id) = pre \ Select(pre, req[r].id)

C11_Witness ==
    \E r \in Workers :
        /\ Done(r, "delete", 200)
        /\ Row(pre, req[r].id).status = Some("Deleted")
        /\ Row(pre, req[r].id).comments = Some("x")
        /\ At(Row(tasks, req[r].id).updated_at)
              > At(Row(pre, req[r].id).updated_at)

-----------------------------------------------------------------------------
(* Properties of the lists, stated of the host started on stored tasks.    *)

\* the arguments query was called with, directly or by filter_tasks
AskedQuery == IF asked.route = "filter" THEN FilterQuery(asked.data) ELSE asked.data

\* a list was answered, ordered by due_date
ListedByDueDate(r) ==
    /\ req[r].pc = "done" /\ req[r].code = 200
    /\ \/ req[r].op = "get_all" /\ asked.data.sort_by_due_date
       \/ req[r].op \in {"query", "filter"} /\ AskedQuery.sort_by = "due_date"

ListedDescending(r) ==
    req[r].op \in {"query", "filter"} /\ Lower(AskedQuery.sort_order) = "desc"

Listed(r) == {req[r].body[i] : i \in DOMAIN req[r].body}

\* C12: in a list ordered by due_date, ascending or descending, no task
\* without a due_date stands before one with a due_date, and those with a
\* due_date stand in ascending (descending) order of it.
C12_NullsLast ==
    \A r \in Workers :
        ListedByDueDate(r) =>
            \A i, j \in DOMAIN req[r].body :
                i < j =>
                    /\ req[r].body[i].due_date = None =>
                          req[r].body[j].due_date = None
                    /\ req[r].body[i].due_date # None /\ req[r].body[j].due_date # None
                       => IF ListedDescending(r)
                          THEN At(req[r].body[i].due_date) >= At(req[r].body[j].due_date)
                          ELSE At(req[r].body[i].due_date) <= At(req[r].body[j].due_date)

C12_Witness ==
    \E r \in Workers :
        /\ ListedByDueDate(r) /\ ListedDescending(r)
        /\ Len(req[r].body) = 3
        /\ req[r].body[1].due_date = DueAt(2)
        /\ req[r].body[2].due_date = DueAt(1)
        /\ req[r].body[3].due_date = None
        /\ req[r].body[3].id = 1

\* C13: get_all and query called with a status and with
\* exclude_closed_deleted return the tasks of that status, each once, and
\* no others: the Closed ones for status Closed.
C13_StatusWins ==
    \A r \in Workers :
        /\ req[r].pc = "done" /\ req[r].code = 200
        /\ req[r].op \in {"get_all", "query"}
        /\ asked.data.exclude_closed_deleted
        /\ Truthy(IF req[r].op = "query" THEN asked.data.status
                  ELSE asked.data.status_filter)
        => /\ Listed(r) =
                {row \in tasks :
                    row.status = (IF req[r].op = "query" THEN asked.data.status
                                  ELSE asked.data.status_filter)}
           /\ Len(req[r].body) = Cardinality(Listed(r))

C13_Witness ==
    \E r \in Workers :
        /\ Done(r, "query", 200)
        /\ asked.data.exclude_closed_deleted
        /\ asked.data.status = Some("Closed")
        /\ Len(req[r].body) = 2
        /\ Cardinality(tasks) = 3

\* C14: get_all with exclude_closed_deleted and no status returns the tasks
\* that are neither Closed nor Deleted; get_all with a status returns the
\* tasks of that status; each once and no others.
C14_ListFilters ==
    \A r \in Workers :
        Done(r, "get_all", 200) =>
            /\ Len(req[r].body) = Cardinality(Listed(r))
            /\ Listed(r) =
                 IF Truthy(asked.data.status_filter)
                 THEN {row \in tasks : row.status = asked.data.status_filter}
                 ELSE IF asked.data.exclude_closed_deleted
                 THEN {row \in tasks : row.status \notin {Some("Closed"), Some("Deleted")}}
                 ELSE tasks

C14_Witness ==
    \E r \in Workers :
        /\ Done(r, "get_all", 200)
        /\ asked.data.status_filter = None
        /\ asked.data.exclude_closed_deleted
        /\ {row.status : row \in tasks} = {Some("Open"), Some("Closed"), Some("Deleted")}
        /\ Len(req[r].body) = 1

\* C15: a query whose sort field is not one of the five answers with the
\* invalid-input error and never comes to the statement that opens the
\* connection; the table is as it was.
C15_BadSortField ==
    \A r \in Workers :
        /\ req[r].pc = "query_select" => req[r].upd.sort_by \in ValidSortFields
        /\ /\ req[r].op \in {"query", "filter"}
           /\ req[r].pc = "done"
           /\ AskedQuery.sort_by \notin ValidSortFields
           => req[r].code = 400 /\ req[r].body = <<>> /\ tasks = pre

C15_Witness ==
    \E r \in Workers :
        /\ Done(r, "query", 400)
        /\ asked.data.sort_by = "bogus"
        /\ Lower(asked.data.sort_order) \in ValidSortOrders
        /\ Cardinality(tasks) = 3

\* C16: query returns the tasks that satisfy every filter supplied (an
\* empty string supplies none), each once and no others; due_date_before keeps the due dates earlier than the
\* bound and due_date_after the later ones, so a due date equal to the
\* bound is kept by neither, nor is a task without a due date.
C16_FiltersConjoined ==
    \A r \in Workers :
        Done(r, "query", 200) =>
            /\ Len(req[r].body) = Cardinality(Listed(r))
            /\ Listed(r) =
                 {row \in tasks :
                    /\ Truthy(asked.data.status) => row.status = asked.data.status
                    /\ ~Truthy(asked.data.status) /\ asked.data.exclude_closed_deleted
                         => row.status \notin {Some("Closed"), Some("Deleted")}
                    /\ TruthyText(asked.data.due_date_before) =>
                         /\ row.due_date # None
                         /\ At(row.due_date) < At(asked.data.due_date_before)
                    /\ TruthyText(asked.data.due_date_after) =>
                         /\ row.due_date # None
                         /\ At(row.due_date) > At(asked.data.due_date_after)
                    /\ asked.data.has_due_date = Some(TRUE) => row.due_date # None
                    /\ asked.data.has_due_date = Some(FALSE) => row.due_date = None}

C16_Witness ==
    \E r \in Workers :
        /\ Done(r, "query", 200)
        /\ asked.data.status = Some("Open")
        /\ asked.data.due_date_before = DueAt(MaxDue)
        /\ asked.data.due_date_after = DueAt(1)
        /\ asked.data.has_due_date = Some(TRUE)
        /\ Len(req[r].body) = 1
        /\ {row.due_date : row \in tasks} = {DueAt(1), DueAt(2), DueAt(MaxDue)}
        /\ \A row \in tasks : row.status = Some("Open")

\* C17: an update of the status alone, to any of the five, of a stored task
\* answers 200 and stores that status, whatever the status was: also when it
\* was Deleted.
C17_AnyTransition ==
    \A r \in Workers :
        /\ req[r].pc = "done" /\ req[r].op = "update"
        /\ req[r].id \in Ids(pre)
        /\ DOMAIN asked.data = {"status"}
        /\ asked.data["status"] \in {Some(s) : s \in TaskStatus}
        => /\ req[r].code = 200
           /\ Row(tasks, req[r].id).status = asked.data["status"]
           /\ req[r].body[1].status = asked.data["status"]

C17_Witness ==
    \E r \in Workers :
        /\ Done(r, "update", 200)
        /\ Row(pre, req[r].id).status = Some("Deleted")
        /\ Row(tasks, req[r].id).status = Some("In Progress")

-----------------------------------------------------------------------------
(* Properties of the titles and of create's validation (serial host).      *)

\* C18: every stored title has between 1 and 500 characters.
C18_TitleLength ==
    \A row \in tasks : Len(Val(row.title)) \in 1..MaxTitleLen

\* the title is missing or empty or too long, or the comments are too long
BadTitleOrComments(data) ==
    \/ ~Has(data, "title")
    \/ ~Truthy(data["title"])
    \/ Len(Val(data["title"])) > MaxTitleLen
    \/ /\ Has(data, "comments") /\ data["comments"] # None
       /\ Len(Val(data["comments"])) > MaxCommentsLen

\* the status the task would get is one of the five
GoodStatus(route, data) ==
    CreateStatus(route, data) \in {Some(st) : st \in TaskStatus}

\* the due_date is missing, null or a date-time in ISO format
GoodDueDate(data) ==
    Has(data, "due_date") /\ data["due_date"] # None =>
        IsIsoFormat(ReplaceZ(Val(data["due_date"])))

\* the create left one new row, the task it returned, and no other change
InsertedOne(r) ==
    /\ req[r].code = 201
    /\ req[r].body[1].id \notin Ids(pre)
    /\ tasks = pre \cup {req[r].body[1]}

\* C19 (as amended): a create whose title is missing, empty or longer than
\* 500, whose comments are longer than 5000, whose status is not valid or
\* whose due_date is neither null nor in ISO format answers 400 and leaves
\* the table as it was.  Every other create inserts exactly one row, or, when
\* the id it generated is stored already, none.
C19_CreateValidation ==
    \A r \in Workers :
        req[r].pc = "done" /\ req[r].op = "create" =>
            IF \/ BadTitleOrComments(asked.data)
               \/ ~GoodStatus(asked.route, asked.data)
               \/ ~GoodDueDate(asked.data)
            THEN req[r].code = 400 /\ tasks = pre
            ELSE \/ InsertedOne(r)
                 \/ req[r].code # 201 /\ req[r].id \in Ids(pre) /\ tasks = pre

C19_Witness ==
    \E r \in Workers :
        /\ Done(r, "create", 400)
        /\ Has(asked.data, "comments")
        /\ Len(Val(asked.data["comments"])) = MaxCommentsLen + 1
        /\ GoodStatus(asked.route, asked.data) /\ GoodDueDate(asked.data)
        /\ tasks = pre /\ tasks # {}

\* C19 (as claimed): a create with a bad title or comments answers 400 and
\* inserts nothing; every other create with a valid status inserts one row.
C19_Original ==
    \A r \in Workers :
        req[r].pc = "done" /\ req[r].op = "create" =>
            IF BadTitleOrComments(asked.data)
            THEN req[r].code = 400 /\ tasks = pre
            ELSE GoodStatus(asked.route, asked.data) => InsertedOne(r)

-----------------------------------------------------------------------------
(* Properties of concurrent updates (threaded host).                       *)

\* C20: once an update has found its row, the row is there when it writes,
\* whatever the other worker did in between; its UPDATE stores every value
\* of its change set over what is stored and touches nothing else; and it
\* answers 200.  So of two updates of one field the later UPDATE's value is
\* the one stored.
C20_LastWriteWins ==
    /\ [](\A r \in Workers :
            req[r].pc \in {"upd_now", "upd_write", "upd_read"} =>
                Select(tasks, req[r].id) # {})
    /\ [][\A r \in Workers :
            /\ req[r].pc = "upd_write" /\ req'[r].pc # "upd_write" =>
                 /\ req'[r].pc = "upd_read"
                 /\ \A k \in DOMAIN req[r].upd :
                       Row(tasks', req[r].id)[k] = req[r].upd[k]
                 /\ \A k \in DOMAIN Row(tasks, req[r].id) \ DOMAIN req[r].upd :
                       Row(tasks', req[r].id)[k] = Row(tasks, req[r].id)[k]
                 /\ tasks' \ Select(tasks', req[r].id)
                       = tasks \ Select(tasks, req[r].id)
            /\ req[r].pc = "upd_read" /\ req'[r].pc # "upd_read" =>
                 req'[r].pc = "done" /\ req'[r].code = 200]_vars

C20_Witness ==
    \E r \in Workers, q \in Workers :
        /\ req[r].pc = "upd_read" /\ req[q].pc = "upd_read"
        /\ req[r].id = req[q].id
        /\ Has(req[r].upd, "title") /\ req[r].upd["title"] = Some("b")
        /\ Has(req[q].upd, "title") /\ req[q].upd["title"] = Some("c")
        /\ Row(tasks, req[r].id).title = Some("c")

-----------------------------------------------------------------------------
(* Properties of the connections (threaded host).                          *)

\* C21: a worker that has answered, or is between requests, holds no open
\* connection, however its with-blocks were left; a worker in a handler
\* holds one only from its UPDATE to the get_by_id that follows.
C21_ConnectionsClosed ==
    \A r \in Workers :
        /\ req[r].pc \in {"idle", "done"} => req[r].conns = 0
        /\ req[r].conns = IF req[r].pc = "upd_read" THEN 1 ELSE 0

C21_Witness ==
    \E r \in Workers, q \in Workers :
        /\ Done(r, "create", 500)
        /\ Done(q, "get", 404)
        /\ req[r].conns + req[q].conns = 0

-----------------------------------------------------------------------------
(* Properties of the error statuses (serial host).                         *)

\* C22: a create whose chosen id is already in the table answers 409, the
\* status of a duplicate id, and not the 500 of a storage failure.
C22_DuplicateIdIs409 ==
    \A r \in Workers :
        (req[r].pc = "done" /\ req[r].op = "create"
            /\ req[r].id \in Ids(pre)) => req[r].code = 409

\* the request is an update whose body names a status that is no TaskStatus
BadStatusUpdate ==
    /\ asked.route \in UpdateRoutes
    /\ Has(asked.data, "status")
    /\ asked.data["status"] \notin {Some(st) : st \in TaskStatus}

\* C23: a create or an update that is answered 400 has opened no connection
\* and left the table as it was; an update that names an invalid status is
\* answered 400 whether or not its id is stored.
C23_FailFast ==
    \A r \in Workers :
        /\ (req[r].pc = "done" /\ req[r].op \in {"create", "update"}
               /\ req[r].code = 400) =>
              req[r].opened = 0 /\ tasks = pre
        /\ (req[r].pc = "done" /\ req[r].op = "update" /\ BadStatusUpdate) =>
              req[r].code = 400

C23_Witness ==
    \E r \in Workers :
        /\ Done(r, "update", 400)
        /\ BadStatusUpdate
        /\ Select(pre, req[r].id) = {}

-----------------------------------------------------------------------------
(* Properties of concurrent updates (threaded host).                       *)

\* C24: the task a successful update returns holds, in every column of its
\* change set and in updated_at, the value this update wrote, whatever the
\* other worker does meanwhile.
C24_ReturnsOwnUpdate ==
    [][\A r \in Workers :
          (req[r].pc = "upd_read" /\ req[r].op = "update"
              /\ req'[r].pc = "done" /\ req'[r].code = 200) =>
             \A k \in DOMAIN req[r].upd :
                 req'[r].body[1][k] = req[r].upd[k]]_vars

-----------------------------------------------------------------------------
(* Properties of GET /api/tasks and of the date filters (stored host).     *)

\* C25: GET /api/tasks lists a Closed or Deleted task only when the status
\* parameter is that task's status; with the parameter absent or empty it
\* lists no Closed or Deleted task.
C25_ClosedDeletedOnlyByName ==
    \A r \in Workers :
        Done(r, "tasks_api", 200) =>
            \A t \in Listed(r) :
                Val(t.status) \in {"Closed", "Deleted"} =>
                    asked.data.status = t.status

-----------------------------------------------------------------------------
(* Properties of the update routes (serial host).                          *)

\* the request is an update whose body has the title key with an empty value
EmptyTitleUpdate ==
    /\ asked.route \in UpdateRoutes
    /\ Has(asked.data, "title")
    /\ ~Truthy(asked.data["title"])

\* C26: an update whose body has title with an empty value is answered 400
\* through /api/tasks and /tasks and leaves the table as it was, whatever
\* else the body names; through /api/v1/tasks it is not answered 400, and
\* when the task is stored the empty string becomes its title.
C26_EmptyTitleByRoute ==
    \A r \in Workers :
        (req[r].pc = "done" /\ req[r].op = "update" /\ EmptyTitleUpdate) =>
            IF asked.route \in {"api", "tasks"}
            THEN req[r].code = 400 /\ tasks = pre
            ELSE /\ req[r].code # 400
                 /\ (asked.data["title"] = Some("") /\ Select(pre, req[r].id) # {}) =>
                       /\ req[r].code = 200
                       /\ Row(tasks, req[r].id).title = Some("")

C26_Witness ==
    \E r \in Workers :
        /\ Done(r, "update", 400)
        /\ EmptyTitleUpdate
        /\ asked.route = "api"
        /\ Has(asked.data, "comments")
        /\ Select(pre, req[r].id) # {}

\* the updates of r and q are of one task and name no column in common
DisjointUpdates(r, q) ==
    /\ r # q
    /\ req[r].op = "update" /\ req[q].op = "update"
    /\ req[r].id = req[q].id
    /\ DOMAIN req[r].upd \cap DOMAIN req[q].upd = {"updated_at"}

\* the task holds the values the update of r names
Holds(t, r) ==
    \A k \in DOMAIN req[r].upd \ {"updated_at"} :
        Row(t, req[r].id)[k] = req[r].upd[k]

\* C28: when an update commits while another update of the same task, of
\* disjoint fields, has committed and not yet answered, the task holds the
\* fields of both afterwards, whichever of the two committed first.
C28_DisjointUpdatesBothApply ==
    [][\A r \in Workers, q \in Workers :
          (req[r].pc = "upd_read" /\ Holds(tasks, r)
              /\ req[q].pc = "upd_write" /\ req'[q].pc = "upd_read"
              /\ DisjointUpdates(r, q)) =>
             Holds(tasks', r) /\ Holds(tasks', q)]_vars

C28_Witness ==
    \E r \in Workers, q \in Workers :
        /\ req[r].pc = "upd_read" /\ req[q].pc = "upd_read"
        /\ DisjointUpdates(r, q)
        /\ Has(req[r].upd, "title") /\ req[r].upd["title"] = Some("b")
        /\ Has(req[q].upd, "comments") /\ req[q].upd["comments"] = Some("y")
        /\ At(req[r].upd["updated_at"]) < At(req[q].upd["updated_at"])
        /\ Row(tasks, req[r].id).updated_at = req[r].upd["updated_at"]
        /\ Row(tasks, req[r].id).title = Some("b")
        /\ Row(tasks, req[r].id).comments = Some("y")

-----------------------------------------------------------------------------
(* Properties of updated_at under interleaving (threaded host).            *)

\* C27: no step lowers the updated_at of a stored task, in any interleaving
\* of the updates and deletes of the workers.
C27_UpdatedAtNeverDecreases ==
    [][\A old \in tasks : \A new \in tasks' :
          old.id = new.id => At(old.updated_at) <= At(new.updated_at)]_vars

\* a list was answered to a query that gave a bound on due_date (a bound
\* given as the empty string is no bound)
ListedWithBound(r) ==
    /\ req[r].pc = "done" /\ req[r].code = 200
    /\ req[r].op \in {"query", "filter"}
    /\ \/ TruthyText(AskedQuery.due_date_before)
       \/ TruthyText(AskedQuery.due_date_after)

\* C29: a query that gives due_date_before or due_date_after lists no task
\* without a due_date; with has_due_date false as well it lists nothing.
C29_BoundExcludesNull ==
    \A r \in Workers :
        ListedWithBound(r) =>
            /\ \A t \in Listed(r) : t.due_date # None
            /\ AskedQuery.has_due_date = Some(FALSE) => req[r].body = <<>>

C29_Witness ==
    \E r \in Workers :
        /\ ListedWithBound(r)
        /\ AskedQuery.has_due_date = Some(FALSE)
        /\ AskedQuery.status = None
        /\ AskedQuery.due_date_after = None
        /\ \E row \in tasks : row.due_date = None
        /\ \E row \in tasks :
              /\ row.due_date # None
              /\ At(row.due_date) < At(AskedQuery.due_date_before)
        /\ req[r].body = <<>>

\* C30: GET /api/tasks/filter compares due dates with its bounds as
\* instants, however the bound is spelled: it lists only tasks due earlier
\* than due_date_before and later than due_date_after, so a task due at the
\* instant of the bound is listed for neither.
C30_BoundsAreInstants ==
    \A r \in Workers :
        Done(r, "filter", 200) =>
            \A t \in Listed(r) :
                /\ TruthyText(asked.data.due_date_before) =>
                      /\ t.due_date # None
                      /\ At(t.due_date) < At(asked.data.due_date_before)
                /\ TruthyText(asked.data.due_date_after) =>
                      /\ t.due_date # None
                      /\ At(t.due_date) > At(asked.data.due_date_after)
====
